---- MODULE Spec2Model ----
(***************************************************************************)
(* The scoped-token authentication service of the contacts REST API:       *)
(* src/services/auth.py (class Auth), the routes of src/routes/auth.py and *)
(* src/routes/users.py that call it, and the user repository               *)
(* src/repository/users.py.                                                *)
(*                                                                         *)
(* Time is the server clock in whole seconds, the unit of the iat and exp  *)
(* claims of a token.  The user store is the users table, one record per   *)
(* row, the row's id being its position.  The session cache is the redis   *)
(* key space "user:<email>".                                               *)
(***************************************************************************)
EXTENDS Naturals, Sequences, FiniteSets

VARIABLES
    users,      \* the users table: a sequence of rows, users[i].id = i
    cache,      \* redis: email -> None or <<[value, expire_at]>>
    now,        \* the server clock, in seconds
    ticks,      \* how many times the clock has advanced
    issued,     \* the token strings handed out so far (responses and mails)
    spent,      \* the refresh tokens a successful refresh has consumed
    zero_ttl,   \* the tokens created with expires_delta = 0
    owners,     \* <<token, id>>: the string was handed to the user with that id
    asked,      \* the calls of the token service made directly, and their results
    last,       \* the request served last at this clock value, and its response
    proc        \* the refresh requests in flight on the server's workers

vars == <<users, cache, now, ticks, issued, spent, zero_ttl, owners, asked, last,
          proc>>

(***************************************************************************)
(* Bounds of the model.                                                    *)
(***************************************************************************)
MaxTicks == 2
MaxTokens == 5

Emails == {"a@x.com", "b@x.com"}
Registrants == {"a@x.com"}      \* the addresses that sign up
Passwords == {"secret", "other"}
Salts == {"s1"}                 \* the salts bcrypt draws at signup
Procs == {"w1", "w2"}

(***************************************************************************)
(* Optional values: None is the empty sequence, Some(x) a one-element one. *)
(***************************************************************************)
None == <<>>
Some(x) == <<x>>

(***************************************************************************)
(* Program constants.                                                      *)
(***************************************************************************)
SECRET_KEY == "settings.secret_key_jwt"
ATTACKER_KEY == "not the secret key"
ACCESS_SCOPE == "access_token"
REFRESH_SCOPE == "refresh_token"
EMAIL_SCOPE == "email_token"
Scopes == {ACCESS_SCOPE, REFRESH_SCOPE, EMAIL_SCOPE}
ACCESS_DEFAULT == 15 * 60
REFRESH_DEFAULT == 7 * 86400
EMAIL_DEFAULT == 1 * 86400
CACHE_TTL == 900

(***************************************************************************)
(* PasswordHasher: passlib's CryptContext(schemes=["bcrypt"]).  A hash     *)
(* embeds its scheme and its salt; the digest is a one-way function of     *)
(* the salt and of the bytes bcrypt reads from the plaintext, modelled by  *)
(* the pair itself.  bcrypt reads the first 72 bytes of a plaintext.       *)
(***************************************************************************)
Prefix72 ==
    "aaaaaaaaaaaaaaaaaaaaaaaaaaaaaaaaaaaaaaaaaaaaaaaaaaaaaaaaaaaaaaaaaaaaaaaa"
Long1 ==
    "aaaaaaaaaaaaaaaaaaaaaaaaaaaaaaaaaaaaaaaaaaaaaaaaaaaaaaaaaaaaaaaaaaaaaaaa1"
Long2 ==
    "aaaaaaaaaaaaaaaaaaaaaaaaaaaaaaaaaaaaaaaaaaaaaaaaaaaaaaaaaaaaaaaaaaaaaaaa2"

\* the bytes of a plaintext that reach the digest; every other plaintext of
\* the model is shorter than 72 bytes
bcrypt_input(password) ==
    IF password \in {Long1, Long2} THEN Prefix72 ELSE password

get_password_hash(password, salt) ==
    [scheme |-> "bcrypt", salt |-> salt,
     digest |-> <<salt, bcrypt_input(password)>>]

\* CryptContext.verify: a stored string that is not a hash of a scheme of
\* the context raises UnknownHashError; otherwise the digests are compared.
verify_password(plain_password, hashed_password) ==
    IF hashed_password.scheme # "bcrypt"
    THEN [raised |-> TRUE, value |-> FALSE]
    ELSE [raised |-> FALSE,
          value |-> hashed_password.digest =
                       <<hashed_password.salt, bcrypt_input(plain_password)>>]

(***************************************************************************)
(* TokenCodec: python-jose's jwt.encode / jwt.decode with one key and one  *)
(* HMAC algorithm.  A token string is its claim set and the signature over *)
(* exactly that claim set: equal claims under the same key give the same   *)
(* string.  Datetimes are encoded as whole seconds.                        *)
(***************************************************************************)
Sign(claims, key) == [key |-> key, over |-> claims]

\* encode_jwt signing the caller's data before iat, exp and scope are added
encode_jwt_signs_data(data, iat, exp, scope) ==
    LET to_encode == [sub |-> data.sub, iat |-> iat, exp |-> exp, scope |-> scope]
    IN  [claims |-> to_encode, sig |-> Sign([sub |-> data.sub], SECRET_KEY)]

encode_jwt(data, iat, exp, scope) ==
    LET to_encode == [sub |-> data.sub, iat |-> iat, exp |-> exp, scope |-> scope]
    IN  [claims |-> to_encode, sig |-> Sign(to_encode, SECRET_KEY)]

\* decode_jwt checking exp with a leeway of one second
decode_jwt_leeway(token, t) ==
    IF token.sig # Sign(token.claims, SECRET_KEY)
    THEN [error |-> "JWTError", payload |-> token.claims]
    ELSE IF token.claims.exp + 1 < t
         THEN [error |-> "ExpiredSignatureError", payload |-> token.claims]
         ELSE [error |-> "none", payload |-> token.claims]

\* decode_jwt that does not verify the signature
decode_jwt_unverified(token, t) ==
    IF token.claims.exp < t
    THEN [error |-> "ExpiredSignatureError", payload |-> token.claims]
    ELSE [error |-> "none", payload |-> token.claims]

\* jwt.decode at clock value t: the signature first, then exp with no leeway
\* (jose rejects when exp < now).  ExpiredSignatureError is a JWTError.
decode_jwt(token, t) ==
    IF token.sig # Sign(token.claims, SECRET_KEY)
    THEN [error |-> "JWTError", payload |-> token.claims]
    ELSE IF token.claims.exp < t
         THEN [error |-> "ExpiredSignatureError", payload |-> token.claims]
         ELSE [error |-> "none", payload |-> token.claims]

\* Python's truthiness of Optional[float]: None and 0 are both falsy.
Truthy(expires_delta) == expires_delta # None /\ expires_delta[1] # 0

\* t_exp and t_iat are the two reads of datetime.utcnow(), in that order.
\* The routes below are served within one clock second: both reads give now.
create_access_token(data, expires_delta, t_exp, t_iat) ==
    LET expire == t_exp + (IF Truthy(expires_delta) THEN expires_delta[1]
                                                   ELSE ACCESS_DEFAULT)
    IN  encode_jwt(data, t_iat, expire, ACCESS_SCOPE)

\* create_refresh_token encoding the access scope
create_refresh_token_as_access(data, expires_delta, t_exp, t_iat) ==
    LET expire == t_exp + (IF Truthy(expires_delta) THEN expires_delta[1]
                                                   ELSE REFRESH_DEFAULT)
    IN  encode_jwt(data, t_iat, expire, ACCESS_SCOPE)

create_refresh_token(data, expires_delta, t_exp, t_iat) ==
    LET expire == t_exp + (IF Truthy(expires_delta) THEN expires_delta[1]
                                                   ELSE REFRESH_DEFAULT)
    IN  encode_jwt(data, t_iat, expire, REFRESH_SCOPE)

\* create_email_token encoding the refresh scope
create_email_token_as_refresh(data, expires_delta, t_exp, t_iat) ==
    LET expire == t_exp + (IF Truthy(expires_delta) THEN expires_delta[1]
                                                   ELSE EMAIL_DEFAULT)
    IN  encode_jwt(data, t_iat, expire, REFRESH_SCOPE)

create_email_token(data, expires_delta, t_exp, t_iat) ==
    LET expire == t_exp + (IF Truthy(expires_delta) THEN expires_delta[1]
                                                   ELSE EMAIL_DEFAULT)
    IN  encode_jwt(data, t_iat, expire, EMAIL_SCOPE)

(***************************************************************************)
(* The outcome of a token check: the subject when the token is accepted,   *)
(* else the HTTPException raised.                                          *)
(***************************************************************************)
Accepted(email) == [email |-> Some(email), status |-> 200, detail |-> "ok"]
Raised(status, detail) == [email |-> None, status |-> status, detail |-> detail]

\* decode_refresh_token without its scope test
decode_refresh_token_any_scope(refresh_token, t) ==
    LET d == decode_jwt(refresh_token, t)
    IN  IF d.error # "none"
        THEN Raised(401, "Could not validate credentials")
        ELSE Accepted(d.payload.sub)

decode_refresh_token(refresh_token, t) ==
    LET d == decode_jwt(refresh_token, t)
    IN  IF d.error # "none"
        THEN Raised(401, "Could not validate credentials")
        ELSE IF d.payload.scope = REFRESH_SCOPE
             THEN Accepted(d.payload.sub)
             ELSE Raised(401, "Invalid scope for token")

\* get_current_user without its scope test
bearer_subject_any_scope(token, t) ==
    LET d == decode_jwt(token, t)
    IN  IF d.error # "none"
        THEN Raised(401, "Could not validate credentials")
        ELSE Accepted(d.payload.sub)

\* The token check of get_current_user, before the cache is consulted.
bearer_subject(token, t) ==
    LET d == decode_jwt(token, t)
    IN  IF d.error # "none"
        THEN Raised(401, "Could not validate credentials")
        ELSE IF d.payload.scope = ACCESS_SCOPE
             THEN Accepted(d.payload.sub)
             ELSE Raised(401, "Could not validate credentials")

\* get_email_from_token refusing a token in the second of its exp
get_email_from_token_before_exp(token, t) ==
    LET d == decode_jwt(token, t + 1)
    IN  IF d.error # "none"
        THEN Raised(422, "Invalid token for email verification")
        ELSE IF d.payload.scope = EMAIL_SCOPE
             THEN Accepted(d.payload.sub)
             ELSE Raised(401, "Invalid scope for token")

get_email_from_token(token, t) ==
    LET d == decode_jwt(token, t)
    IN  IF d.error # "none"
        THEN Raised(422, "Invalid token for email verification")
        ELSE IF d.payload.scope = EMAIL_SCOPE
             THEN Accepted(d.payload.sub)
             ELSE Raised(401, "Invalid scope for token")

(***************************************************************************)
(* The user repository.  db is the users table.                            *)
(***************************************************************************)
get_user_by_email(email, db) ==
    LET hits == SelectSeq(db, LAMBDA u : u.email = email)
    IN  IF hits = <<>> THEN None ELSE Some(hits[1])

\* select_user answering with a blank row when the table has none
select_user_ghost(email, db, store_ok) ==
    IF ~store_ok
    THEN [raised |-> TRUE, user |-> None]
    ELSE IF get_user_by_email(email, db) = None
         THEN [raised |-> FALSE,
               user |-> Some([id |-> 0, email |-> email,
                              password |-> get_password_hash("", "s1"),
                              confirmed |-> FALSE, refresh_token |-> None])]
         ELSE [raised |-> FALSE, user |-> get_user_by_email(email, db)]

\* select_user treating an unavailable store as "no such user"
select_user_swallow(email, db, store_ok) ==
    IF ~store_ok
    THEN [raised |-> FALSE, user |-> None]
    ELSE [raised |-> FALSE, user |-> get_user_by_email(email, db)]

\* get_user_by_email as its caller sees it: db.execute raises when the store
\* is unavailable (store_ok false), and the exception is the caller's.
select_user(email, db, store_ok) ==
    IF ~store_ok
    THEN [raised |-> TRUE, user |-> None]
    ELSE [raised |-> FALSE, user |-> get_user_by_email(email, db)]

create_user(body, db) ==
    Append(db, [id |-> Len(db) + 1, email |-> body.email,
                password |-> body.password, confirmed |-> FALSE,
                refresh_token |-> None])

\* update_token that never clears the column
update_token_keep(user, token, db, commit_ok) ==
    IF ~commit_ok
    THEN [raised |-> TRUE, db |-> db]
    ELSE IF user.refresh_token = token \/ token = None
         THEN [raised |-> FALSE, db |-> db]
         ELSE [raised |-> FALSE, db |-> [db EXCEPT ![user.id].refresh_token = token]]

\* update_token that does not replace a token already stored
update_token_first_only(user, token, db, commit_ok) ==
    IF ~commit_ok
    THEN [raised |-> TRUE, db |-> db]
    ELSE IF user.refresh_token = token \/ (user.refresh_token # None /\ token # None)
         THEN [raised |-> FALSE, db |-> db]
         ELSE [raised |-> FALSE, db |-> [db EXCEPT ![user.id].refresh_token = token]]

\* update_token that swallows the failure of db.commit()
update_token_swallow(user, token, db, commit_ok) ==
    IF ~commit_ok \/ user.refresh_token = token
    THEN [raised |-> FALSE, db |-> db]
    ELSE [raised |-> FALSE, db |-> [db EXCEPT ![user.id].refresh_token = token]]

\* user is the row as the caller's session loaded it; the unit of work
\* writes the column only when the new value differs from the loaded one.
\* commit_ok is whether db.commit() succeeds; when it does not it raises and
\* the table keeps its rows.
update_token(user, token, db, commit_ok) ==
    IF ~commit_ok
    THEN [raised |-> TRUE, db |-> db]
    ELSE IF user.refresh_token = token
         THEN [raised |-> FALSE, db |-> db]
         ELSE [raised |-> FALSE, db |-> [db EXCEPT ![user.id].refresh_token = token]]

update_email(user_id, email, db) ==
    [db EXCEPT ![user_id].email = email]

\* update_password that also clears the refresh_token column
update_password_revoking(user_id, password, db) ==
    [db EXCEPT ![user_id].password = password, ![user_id].refresh_token = None]

update_password(user_id, password, db) ==
    [db EXCEPT ![user_id].password = password]

\* confirmed_email that does not commit
confirmed_email_unsaved(user, db) == db

confirmed_email(user, db) == [db EXCEPT ![user.id].confirmed = TRUE]

(***************************************************************************)
(* The session cache.  A key is readable until its expiry; redis removes   *)
(* it then.  A value is the pickle of the row as it was loaded.            *)
(***************************************************************************)
pickle_dumps(user) == [pickle |-> user]
pickle_loads(bytes) == bytes.pickle

\* redis.set that stores nothing
redis_set_dropped(c, email, value) == c

redis_get(c, email, t) ==
    IF c[email] = None THEN None
    ELSE IF c[email][1].expire_at # None /\ c[email][1].expire_at[1] <= t
         THEN None
         ELSE Some(c[email][1].value)

redis_set(c, email, value) ==
    [c EXCEPT ![email] = Some([value |-> value, expire_at |-> None])]

redis_expire(c, email, seconds, t) ==
    IF c[email] = None THEN c
    ELSE [c EXCEPT ![email] = Some([value |-> c[email][1].value,
                                    expire_at |-> Some(t + seconds)])]

Purge(c, t) == [e \in Emails |-> IF redis_get(c, e, t) = None THEN None ELSE c[e]]

(***************************************************************************)
(* What a client can present: every token string handed out so far, and    *)
(* what can be made of one without the signing key: its claims altered     *)
(* under the old signature, or the same claims signed with another key.    *)
(***************************************************************************)
Rescope(t, s) == [claims |-> [t.claims EXCEPT !.scope = s], sig |-> t.sig]
Resign(t) == [claims |-> t.claims, sig |-> Sign(t.claims, ATTACKER_KEY)]
Tampered ==
    {Rescope(t, s) : t \in issued, s \in Scopes} \cup {Resign(t) : t \in issued}

\* the tampered strings that are not themselves strings handed out
Forgeries == {f \in Tampered : f.sig # Sign(f.claims, SECRET_KEY)}

Fits(tokens) == Cardinality(tokens) <= MaxTokens

(***************************************************************************)
(* The record of a request and its response.  db_lookup is whether         *)
(* get_current_user went to the user store; down names the collaborator    *)
(* call that raised while the request was served.                          *)
(***************************************************************************)
NoCall ==
    [op |-> "none", tok |-> None, email |-> None, password |-> None, at |-> 0,
     status |-> 0, detail |-> "", access |-> None, refresh |-> None,
     user |-> None, sub |-> None, reuse |-> FALSE, fault |-> FALSE,
     db_lookup |-> FALSE, down |-> "none", scope |-> None,
     new_password |-> None]

Call(op, t) == [NoCall EXCEPT !.op = op, !.at = t]

Respond(call, status, detail) == [call EXCEPT !.status = status, !.detail = detail]

Idle == [pc |-> "idle", tok |-> None, email |-> None, user |-> None,
         status |-> 0, detail |-> "", access |-> None, refresh |-> None,
         overlapped |-> FALSE, db_lookup |-> FALSE, began |-> None]

Init ==
    /\ users = <<>>
    /\ cache = [e \in Emails |-> None]
    /\ now = 0
    /\ ticks = 0
    /\ issued = {}
    /\ spent = {}
    /\ zero_ttl = {}
    /\ owners = {}
    /\ asked = {}
    /\ last = NoCall
    /\ proc = [p \in Procs |-> Idle]

(***************************************************************************)
(* The clock advances; redis drops the keys whose expiry has come.         *)
(***************************************************************************)
TickSteps == {1, CACHE_TTL, EMAIL_DEFAULT, REFRESH_DEFAULT}

Tick(d) ==
    /\ ticks < MaxTicks
    /\ now' = now + d
    /\ ticks' = ticks + 1
    /\ cache' = Purge(cache, now + d)
    /\ last' = NoCall
    /\ UNCHANGED <<users, issued, spent, zero_ttl, asked, owners, proc>>

(***************************************************************************)
(* POST /auth/signup, with its background task send_email_confirmed, which *)
(* mails an email token to the new address.                                *)
(***************************************************************************)
Signup(email, password, salt) ==
    LET call == [Call("signup", now) EXCEPT !.email = Some(email),
                                            !.password = Some(password)]
        exist_user == get_user_by_email(email, users)
        hashed == get_password_hash(password, salt)
        token_verification == create_email_token([sub |-> email], None, now, now)
    IN  IF exist_user # None
        THEN /\ last' = Respond(call, 409, "Account already exists")
             /\ UNCHANGED <<users, cache, now, ticks, issued, spent, zero_ttl, asked,
                            owners, proc>>
        ELSE /\ Fits(issued \cup {token_verification})
             /\ users' = create_user([email |-> email, password |-> hashed], users)
             /\ issued' = issued \cup {token_verification}
             /\ last' = [Respond(call, 201, "User successfully created")
                            EXCEPT !.user = Some(users'[Len(users')])]
             /\ owners' = owners \cup {<<token_verification, Len(users) + 1>>}
             /\ UNCHANGED <<cache, now, ticks, spent, zero_ttl, asked, proc>>

(***************************************************************************)
(* GET /auth/confirmed_email/{token}                                       *)
(***************************************************************************)
ConfirmEmail(token) ==
    LET call == [Call("confirmed_email", now) EXCEPT !.tok = Some(token)]
        checked == get_email_from_token(token, now)
        user == get_user_by_email(checked.email[1], users)
        seen == [call EXCEPT !.sub = checked.email]
    IN  /\ UNCHANGED <<cache, now, ticks, issued, spent, zero_ttl, asked,
                       owners, proc>>
        /\ IF checked.email = None
           THEN /\ last' = Respond(call, checked.status, checked.detail)
                /\ UNCHANGED users
           ELSE IF user = None
           THEN /\ last' = Respond(seen, 400, "Verification error")
                /\ UNCHANGED users
           ELSE IF user[1].confirmed
           THEN /\ last' = Respond(seen, 200, "Your email is already confirmed")
                /\ UNCHANGED users
           ELSE /\ users' = confirmed_email(user[1], users)
                /\ last' = Respond(seen, 200, "Email confirmed")

(***************************************************************************)
(* POST /auth/login.  fault names the store call that raises while the     *)
(* request is served, if it gets that far: "get_user_by_email", or         *)
(* "db.commit" of update_token; "none" when the store is available.  An    *)
(* exception leaves the handler and the framework answers 500.             *)
(***************************************************************************)
\* login checking the password before the confirmation
login_checks_password_first(user, password) ==
    IF user = None THEN "Invalid email"
    ELSE IF verify_password(password, user[1].password).raised
         THEN "UnknownHashError"
    ELSE IF ~verify_password(password, user[1].password).value
         THEN "Invalid password"
    ELSE IF ~user[1].confirmed THEN "Email not confirmed"
    ELSE "ok"

\* login without its test of user.confirmed
login_checks_skip_confirmed(user, password) ==
    IF user = None THEN "Invalid email"
    ELSE IF verify_password(password, user[1].password).raised
         THEN "UnknownHashError"
    ELSE IF ~verify_password(password, user[1].password).value
         THEN "Invalid password"
    ELSE "ok"

\* The three checks of login, in the order the route makes them; an
\* exception out of verify_password is the route's.
login_checks(user, password) ==
    IF user = None THEN "Invalid email"
    ELSE IF ~user[1].confirmed THEN "Email not confirmed"
    ELSE IF verify_password(password, user[1].password).raised
         THEN "UnknownHashError"
    ELSE IF ~verify_password(password, user[1].password).value
         THEN "Invalid password"
    ELSE "ok"

LoginHandler(email, password, fault) ==
    LET call == [Call("login", now) EXCEPT
                    !.email = Some(email),
                    !.password = Some(password),
                    !.fault = (fault = "db.commit"),
                    !.down = IF fault = "get_user_by_email" THEN fault ELSE "none"]
        found == select_user(email, users, fault # "get_user_by_email")
        user == found.user
        failed == login_checks(user, password)
        access_token == create_access_token([sub |-> user[1].email], None, now, now)
        refresh_token == create_refresh_token([sub |-> user[1].email], None, now, now)
        stored == update_token(user[1], Some(refresh_token), users, fault # "db.commit")
        tried == [call EXCEPT !.down = IF fault = "db.commit" THEN fault ELSE "none"]
    IN  /\ UNCHANGED <<cache, now, ticks, spent, zero_ttl, asked, proc>>
        /\ IF found.raised
           THEN \* the exception leaves the handler: no response body
                /\ last' = Respond(call, 500, "Internal Server Error")
                /\ UNCHANGED <<users, issued, owners>>
           ELSE IF failed = "UnknownHashError"
           THEN /\ last' = Respond(call, 500, "Internal Server Error")
                /\ UNCHANGED <<users, issued, owners>>
           ELSE IF failed # "ok"
           THEN /\ last' = Respond(call, 401, failed)
                /\ UNCHANGED <<users, issued, owners>>
           ELSE IF stored.raised
           THEN /\ last' = Respond(tried, 500, "Internal Server Error")
                /\ UNCHANGED <<users, issued, owners>>
           ELSE /\ Fits(issued \cup {access_token, refresh_token})
                /\ users' = stored.db
                /\ issued' = issued \cup {access_token, refresh_token}
                /\ owners' = owners \cup {<<access_token, user[1].id>>,
                                          <<refresh_token, user[1].id>>}
                /\ last' = [Respond(tried, 200, "bearer")
                               EXCEPT !.access = Some(access_token),
                                      !.refresh = Some(refresh_token)]

Login(email, password) == LoginHandler(email, password, "none")

(***************************************************************************)
(* GET /auth/refresh_token, served in one piece.  fault as for login.      *)
(***************************************************************************)
RefreshHandler(token, fault) ==
    LET call == [Call("refresh_token", now) EXCEPT !.tok = Some(token),
                                                   !.reuse = (token \in spent)]
        checked == decode_refresh_token(token, now)
        email == checked.email[1]
        found == select_user(email, users, fault # "get_user_by_email")
        user == found.user
        seen == [call EXCEPT
                    !.sub = checked.email,
                    !.down = IF fault = "get_user_by_email" THEN fault ELSE "none"]
        wrote == [seen EXCEPT !.down = IF fault = "db.commit" THEN fault ELSE "none"]
        access_token == create_access_token([sub |-> email], None, now, now)
        refresh_token == create_refresh_token([sub |-> email], None, now, now)
        cleared == update_token(user[1], None, users, fault # "db.commit")
        stored == update_token(user[1], Some(refresh_token), users,
                               fault # "db.commit")
    IN  /\ UNCHANGED <<cache, now, ticks, zero_ttl, asked, proc>>
        /\ IF checked.email = None
           THEN /\ last' = Respond(call, checked.status, checked.detail)
                /\ UNCHANGED <<users, issued, spent, owners>>
           ELSE IF found.raised
           THEN /\ last' = Respond(seen, 500, "Internal Server Error")
                /\ UNCHANGED <<users, issued, spent, owners>>
           ELSE IF user = None
           THEN \* user.refresh_token on None: AttributeError out of the handler
                /\ last' = Respond(seen, 500, "Internal Server Error")
                /\ UNCHANGED <<users, issued, spent, owners>>
           ELSE IF user[1].refresh_token # Some(token)
           THEN IF cleared.raised
                THEN /\ last' = Respond(wrote, 500, "Internal Server Error")
                     /\ UNCHANGED <<users, issued, spent, owners>>
                ELSE /\ users' = cleared.db
                     /\ last' = Respond(wrote, 401, "Invalid refresh token")
                     /\ UNCHANGED <<issued, spent, owners>>
           ELSE IF stored.raised
           THEN /\ last' = Respond(wrote, 500, "Internal Server Error")
                /\ UNCHANGED <<users, issued, spent, owners>>
           ELSE /\ Fits(issued \cup {access_token, refresh_token})
                /\ users' = stored.db
                /\ issued' = issued \cup {access_token, refresh_token}
                /\ owners' = owners \cup {<<access_token, user[1].id>>,
                                          <<refresh_token, user[1].id>>}
                /\ spent' = spent \cup {token}
                /\ last' = [Respond(wrote, 200, "bearer")
                               EXCEPT !.access = Some(access_token),
                                      !.refresh = Some(refresh_token)]

Refresh(token) == RefreshHandler(token, "none")

(***************************************************************************)
(* GET /users/me: the dependency get_current_user, served in one piece.    *)
(* fault names the cache or store call that raises, if the request gets    *)
(* that far: "redis.get", "get_user_by_email", "redis.set" or              *)
(* "redis.expire".                                                         *)
(***************************************************************************)
GetMeHandler(token, fault) ==
    LET call == [Call("get_current_user", now) EXCEPT !.tok = Some(token)]
        checked == bearer_subject(token, now)
        email == checked.email[1]
        seen == [call EXCEPT
                    !.sub = checked.email,
                    !.down = IF fault = "redis.get" THEN fault ELSE "none"]
        cached == redis_get(cache, email, now)
        found == select_user(email, users, fault # "get_user_by_email")
        looked == [seen EXCEPT
                      !.db_lookup = TRUE,
                      !.down = IF fault = "get_user_by_email" THEN fault ELSE "none"]
        filling == [looked EXCEPT
                       !.down = IF fault \in {"redis.set", "redis.expire"}
                                THEN fault ELSE "none"]
        filled == redis_set(cache, email, pickle_dumps(found.user[1]))
    IN  /\ UNCHANGED <<users, now, ticks, issued, spent, zero_ttl, asked,
                       owners, proc>>
        /\ IF checked.email = None
           THEN /\ last' = Respond(call, checked.status, checked.detail)
                /\ UNCHANGED cache
           ELSE IF fault = "redis.get"
           THEN /\ last' = Respond(seen, 500, "Internal Server Error")
                /\ UNCHANGED cache
           ELSE IF cached # None
           THEN /\ last' = [Respond(seen, 200, "ok")
                               EXCEPT !.user = Some(pickle_loads(cached[1]))]
                /\ UNCHANGED cache
           ELSE IF found.raised
           THEN /\ last' = Respond(looked, 500, "Internal Server Error")
                /\ UNCHANGED cache
           ELSE IF found.user = None
           THEN /\ last' = Respond(looked, 401, "Could not validate credentials")
                /\ UNCHANGED cache
           ELSE IF fault = "redis.set"
           THEN /\ last' = Respond(filling, 500, "Internal Server Error")
                /\ UNCHANGED cache
           ELSE IF fault = "redis.expire"
           THEN \* the key is set, and no expiry follows
                /\ cache' = filled
                /\ last' = Respond(filling, 500, "Internal Server Error")
           ELSE /\ cache' = redis_expire(filled, email, CACHE_TTL, now)
                /\ last' = [Respond(filling, 200, "ok") EXCEPT !.user = found.user]

GetMe(token) == GetMeHandler(token, "none")

Next ==
    \/ \E d \in TickSteps : Tick(d)
    \/ \E e \in Registrants, p \in Passwords, s \in Salts : Signup(e, p, s)
    \/ \E t \in issued : ConfirmEmail(t)
    \/ \E e \in Emails, p \in Passwords : Login(e, p)
    \/ \E t \in issued : Refresh(t)
    \/ \E t \in issued : GetMe(t)

Spec == Init /\ [][Next]_vars

(***************************************************************************)
(* The store failing under login: db.commit() of update_token raises.      *)
(***************************************************************************)
LoginStoreDown(email, password) == LoginHandler(email, password, "db.commit")

NextFault ==
    \/ \E d \in TickSteps : Tick(d)
    \/ \E e \in Registrants, p \in Passwords, s \in Salts : Signup(e, p, s)
    \/ \E t \in issued : ConfirmEmail(t)
    \/ \E e \in Emails, p \in Passwords : Login(e, p)
    \/ \E e \in Emails, p \in Passwords : LoginStoreDown(e, p)
    \/ \E t \in issued : Refresh(t)

SpecFault == Init /\ [][NextFault]_vars

(***************************************************************************)
(* The service's create_access_token called with an explicit lifetime.     *)
(***************************************************************************)
Deltas == {None, Some(0), Some(1)}

CreateAccessToken(email, expires_delta) ==
    LET token == create_access_token([sub |-> email], expires_delta, now, now)
    IN  /\ Fits(issued \cup {token})
        /\ issued' = issued \cup {token}
        /\ zero_ttl' = IF expires_delta = Some(0) THEN zero_ttl \cup {token}
                                                ELSE zero_ttl
        /\ last' = [Respond(Call("create_access_token", now), 200, "ok")
                       EXCEPT !.access = Some(token)]
        /\ UNCHANGED <<users, cache, now, ticks, spent, owners, asked, proc>>

NextIssue ==
    \/ \E d \in {1, ACCESS_DEFAULT} : Tick(d)
    \/ \E e \in Registrants, p \in Passwords, s \in Salts : Signup(e, p, s)
    \/ \E e \in Registrants, x \in Deltas : CreateAccessToken(e, x)
    \/ \E t \in issued : GetMe(t)

SpecIssue == Init /\ [][NextIssue]_vars

(***************************************************************************)
(* The token service on its own: create_access_token, create_refresh_token *)
(* and create_email_token called with any subject and lifetime, and        *)
(* __decode_jwt applied to what they returned.  The server is fresh, or    *)
(* has served a signup, a confirmation, a login and a GET /users/me for    *)
(* one user within second 0.                                               *)
(***************************************************************************)
MaxAsked == 2

CreateOps == {"create_access_token", "create_refresh_token", "create_email_token"}

create_token(op, data, expires_delta, t_exp, t_iat) ==
    IF op = "create_access_token"
    THEN create_access_token(data, expires_delta, t_exp, t_iat)
    ELSE IF op = "create_refresh_token"
         THEN create_refresh_token(data, expires_delta, t_exp, t_iat)
         ELSE create_email_token(data, expires_delta, t_exp, t_iat)

\* one of the three create functions called and returning: last.tok is the
\* token returned
CreateToken(op, email, expires_delta) ==
    LET token == create_token(op, [sub |-> email], expires_delta, now, now)
    IN  /\ Cardinality(asked) < MaxAsked
        /\ Fits(issued \cup {token})
        /\ issued' = issued \cup {token}
        /\ asked' = asked \cup {[tok |-> token, op |-> op, sub |-> email,
                                 delta |-> expires_delta, at |-> now]}
        /\ zero_ttl' = IF expires_delta = Some(0) THEN zero_ttl \cup {token}
                                                ELSE zero_ttl
        /\ last' = [Respond(Call(op, now), 200, "ok")
                       EXCEPT !.email = Some(email), !.tok = Some(token)]
        /\ UNCHANGED <<users, cache, now, ticks, spent, owners, proc>>

\* __decode_jwt: status 200 stands for the payload returned (its sub and
\* scope are recorded), status 0 for the JWTError raised, named in detail
DecodeJwt(token) ==
    LET d == decode_jwt(token, now)
        call == [Call("decode_jwt", now) EXCEPT !.tok = Some(token)]
    IN  /\ last' = IF d.error = "none"
                   THEN [Respond(call, 200, "ok")
                            EXCEPT !.sub = Some(d.payload.sub),
                                   !.scope = Some(d.payload.scope)]
                   ELSE Respond(call, 0, d.error)
        /\ UNCHANGED <<users, cache, now, ticks, issued, spent, zero_ttl, owners,
                       asked, proc>>

\* the server after signup, confirmation, login and GET /users/me of one
\* user, all within second 0
WarmEmail == "a@x.com"
WarmMail == create_email_token([sub |-> WarmEmail], None, 0, 0)
WarmAccess == create_access_token([sub |-> WarmEmail], None, 0, 0)
WarmRefresh == create_refresh_token([sub |-> WarmEmail], None, 0, 0)
WarmUsers ==
    LET created == create_user([email |-> WarmEmail,
                                password |-> get_password_hash("secret", "s1")],
                               <<>>)
        confirmed == confirmed_email(created[1], created)
    IN  update_token(confirmed[1], Some(WarmRefresh), confirmed, TRUE).db
WarmCache ==
    redis_expire(redis_set([e \in Emails |-> None], WarmEmail,
                           pickle_dumps(WarmUsers[1])),
                 WarmEmail, CACHE_TTL, 0)
WarmLast ==
    [Respond(Call("get_current_user", 0), 200, "ok")
        EXCEPT !.tok = Some(WarmAccess), !.sub = Some(WarmEmail),
               !.db_lookup = TRUE, !.user = Some(WarmUsers[1])]

Warm ==
    /\ users = WarmUsers
    /\ cache = WarmCache
    /\ now = 0
    /\ ticks = 0
    /\ issued = {WarmMail, WarmAccess, WarmRefresh}
    /\ spent = {}
    /\ zero_ttl = {}
    /\ owners = {<<WarmMail, 1>>, <<WarmAccess, 1>>, <<WarmRefresh, 1>>}
    /\ asked = {}
    /\ last = WarmLast
    /\ proc = [p \in Procs |-> Idle]

InitCodec == Init \/ Warm

NextCodec ==
    \/ \E d \in {1} : Tick(d)
    \/ \E op \in CreateOps, e \in Emails, x \in Deltas : CreateToken(op, e, x)
    \/ \E t \in issued : DecodeJwt(t)

SpecCodec == InitCodec /\ [][NextCodec]_vars

(***************************************************************************)
(* The two clock reads of a create function.  expire is computed from a    *)
(* first datetime.utcnow(); the iat handed to __encode_jwt is a second     *)
(* datetime.utcnow(), read after it.  jose keeps the whole seconds of      *)
(* both.  Here the clock passes a second boundary between the two reads.   *)
(***************************************************************************)
CreateTokenAcrossSecond(op, email, expires_delta) ==
    LET token == create_token(op, [sub |-> email], expires_delta, now, now + 1)
    IN  /\ ticks < MaxTicks
        /\ Cardinality(asked) < MaxAsked
        /\ Fits(issued \cup {token})
        /\ now' = now + 1
        /\ ticks' = ticks + 1
        /\ cache' = Purge(cache, now + 1)
        /\ issued' = issued \cup {token}
        /\ asked' = asked \cup {[tok |-> token, op |-> op, sub |-> email,
                                 delta |-> expires_delta, at |-> now]}
        /\ zero_ttl' = IF expires_delta = Some(0) THEN zero_ttl \cup {token}
                                                ELSE zero_ttl
        /\ last' = [Respond(Call(op, now), 200, "ok")
                       EXCEPT !.email = Some(email), !.tok = Some(token)]
        /\ UNCHANGED <<users, spent, owners, proc>>

NextClock ==
    \/ \E d \in {1} : Tick(d)
    \/ \E op \in CreateOps, e \in Emails, x \in Deltas : CreateToken(op, e, x)
    \/ \E op \in CreateOps, e \in Emails, x \in Deltas :
          CreateTokenAcrossSecond(op, e, x)
    \/ \E t \in issued : DecodeJwt(t)

SpecClock == InitCodec /\ [][NextClock]_vars

(***************************************************************************)
(* GET /auth/refresh_token on a server with several workers over one       *)
(* database: a request is two database round trips, the SELECT of          *)
(* get_user_by_email and the UPDATE and COMMIT of update_token, and the    *)
(* round trips of two requests interleave.  A worker serves one request.   *)
(***************************************************************************)
InFlight(p) == proc[p].pc = "loaded"

\* decode the token and load the row
RefreshRead(p, token) ==
    LET checked == decode_refresh_token(token, now)
        started == [Idle EXCEPT !.tok = Some(token)]
        user == get_user_by_email(checked.email[1], users)
        others == {q \in Procs \ {p} : InFlight(q)}
    IN  /\ proc[p].pc = "idle"
        /\ UNCHANGED <<users, cache, now, ticks, issued, spent, zero_ttl, asked, owners, last>>
        /\ IF checked.email = None
           THEN proc' = [proc EXCEPT ![p] =
                    [started EXCEPT !.pc = "done", !.status = checked.status,
                                    !.detail = checked.detail]]
           ELSE proc' = [q \in Procs |->
                    IF q = p
                    THEN [started EXCEPT !.pc = "loaded", !.email = checked.email,
                                         !.user = user, !.overlapped = (others # {})]
                    ELSE IF q \in others
                         THEN [proc[q] EXCEPT !.overlapped = TRUE]
                         ELSE proc[q]]

\* compare the loaded row's token, then write and answer
RefreshWrite(p) ==
    LET me == proc[p]
        token == me.tok[1]
        email == me.email[1]
        access_token == create_access_token([sub |-> email], None, now, now)
        refresh_token == create_refresh_token([sub |-> email], None, now, now)
        done == [me EXCEPT !.pc = "done"]
    IN  /\ InFlight(p)
        /\ UNCHANGED <<cache, now, ticks, zero_ttl, asked, last>>
        /\ IF me.user = None
           THEN /\ proc' = [proc EXCEPT ![p] =
                       [done EXCEPT !.status = 500, !.detail = "Internal Server Error"]]
                /\ UNCHANGED <<users, issued, spent, owners>>
           ELSE IF me.user[1].refresh_token # Some(token)
           THEN /\ users' = update_token(me.user[1], None, users, TRUE).db
                /\ proc' = [proc EXCEPT ![p] =
                       [done EXCEPT !.status = 401, !.detail = "Invalid refresh token"]]
                /\ UNCHANGED <<issued, spent, owners>>
           ELSE /\ Fits(issued \cup {access_token, refresh_token})
                /\ users' = update_token(me.user[1], Some(refresh_token), users, TRUE).db
                /\ issued' = issued \cup {access_token, refresh_token}
                /\ owners' = owners \cup {<<access_token, me.user[1].id>>,
                                          <<refresh_token, me.user[1].id>>}
                /\ spent' = spent \cup {token}
                /\ proc' = [proc EXCEPT ![p] =
                       [done EXCEPT !.status = 200, !.detail = "bearer",
                                    !.access = Some(access_token),
                                    !.refresh = Some(refresh_token)]]

NextConc ==
    \/ \E d \in {1} : Tick(d)
    \/ \E e \in Registrants, p \in Passwords, s \in Salts : Signup(e, p, s)
    \/ \E t \in issued : ConfirmEmail(t)
    \/ \E e \in Emails, p \in Passwords : Login(e, p)
    \/ \E p \in Procs, t \in issued : RefreshRead(p, t)
    \/ \E p \in Procs : RefreshWrite(p)

SpecConc == Init /\ [][NextConc]_vars

(***************************************************************************)
(* Clients that present forged tokens as well as the ones handed out.      *)
(***************************************************************************)
NextForge ==
    \/ \E d \in {1, REFRESH_DEFAULT} : Tick(d)
    \/ \E e \in Registrants, s \in Salts : Signup(e, "secret", s)
    \/ \E t \in issued \cup Forgeries : ConfirmEmail(t)
    \/ \E e \in Registrants : Login(e, "secret")
    \/ \E t \in issued \cup Forgeries : Refresh(t)
    \/ \E t \in issued \cup Forgeries : GetMe(t)

SpecForge == Init /\ [][NextForge]_vars

(***************************************************************************)
(* POST /auth/reset_password/{token}: the form's password, of any length,  *)
(* replaces the password of the token's subject.  The token is an email    *)
(* token, as mailed at signup or on a reset request.                       *)
(***************************************************************************)
NewPassword(token, password, salt) ==
    LET call == [Call("new_password", now) EXCEPT !.tok = Some(token),
                                                  !.password = Some(password)]
        checked == get_email_from_token(token, now)
        user == get_user_by_email(checked.email[1], users)
        seen == [call EXCEPT !.sub = checked.email]
        hashed == get_password_hash(password, salt)
    IN  /\ UNCHANGED <<cache, now, ticks, issued, spent, zero_ttl, asked,
                       owners, proc>>
        /\ IF checked.email = None
           THEN /\ last' = Respond(call, checked.status, checked.detail)
                /\ UNCHANGED users
           ELSE IF user = None
           THEN /\ last' = Respond(seen, 400, "Verification error")
                /\ UNCHANGED users
           ELSE IF ~user[1].confirmed
           THEN /\ last' = Respond(seen, 401, "Email not confirmed")
                /\ UNCHANGED users
           ELSE /\ users' = update_password(user[1].id, hashed, users)
                /\ last' = Respond(seen, 200, "ok")

(***************************************************************************)
(* PATCH /users/email.  The dependency get_current_user resolves the       *)
(* bearer token, through the cache; update_email then writes the new       *)
(* address into the row with the resolved id.  The users table has a       *)
(* unique constraint on email: an address another row holds makes the      *)
(* UPDATE raise IntegrityError, which leaves the handler.  No cache key is *)
(* written or deleted for the change.                                      *)
(***************************************************************************)
\* get_current_user with the cache and the store available: its outcome and
\* the cache it leaves
get_current_user(token, c, db, t) ==
    LET checked == bearer_subject(token, t)
        email == checked.email[1]
        cached == redis_get(c, email, t)
        user == get_user_by_email(email, db)
        failed == [status |-> 401, detail |-> "Could not validate credentials",
                   sub |-> checked.email, user |-> None, cache |-> c,
                   db_lookup |-> FALSE]
    IN  IF checked.email = None THEN failed
        ELSE IF cached # None
        THEN [failed EXCEPT !.status = 200, !.detail = "ok",
                            !.user = Some(pickle_loads(cached[1]))]
        ELSE IF user = None THEN [failed EXCEPT !.db_lookup = TRUE]
        ELSE [failed EXCEPT
                 !.status = 200, !.detail = "ok", !.user = user,
                 !.db_lookup = TRUE,
                 !.cache = redis_expire(redis_set(c, email, pickle_dumps(user[1])),
                                        email, CACHE_TTL, t)]

UpdateEmail(token, email) ==
    LET current_user == get_current_user(token, cache, users, now)
        call == [Call("update_email", now) EXCEPT
                    !.tok = Some(token), !.email = Some(email),
                    !.sub = current_user.sub,
                    !.db_lookup = current_user.db_lookup]
        id == current_user.user[1].id
        taken == \E i \in DOMAIN users : i # id /\ users[i].email = email
    IN  /\ cache' = current_user.cache
        /\ UNCHANGED <<now, ticks, issued, spent, zero_ttl, asked, owners, proc>>
        /\ IF current_user.user = None
           THEN /\ last' = Respond(call, current_user.status, current_user.detail)
                /\ UNCHANGED users
           ELSE IF taken
           THEN /\ last' = Respond(call, 500, "Internal Server Error")
                /\ UNCHANGED users
           ELSE /\ users' = update_email(id, email, users)
                /\ last' = [Respond(call, 200, "ok") EXCEPT !.user = Some(users'[id])]

NextEmail ==
    \/ \E d \in {CACHE_TTL} : Tick(d)
    \/ \E e \in Registrants, s \in Salts : Signup(e, "secret", s)
    \/ \E t \in issued : ConfirmEmail(t)
    \/ \E e \in Emails : Login(e, "secret")
    \/ \E t \in issued, e \in Emails : UpdateEmail(t, e)
    \/ \E t \in issued : GetMe(t)
    \/ \E t \in issued : Refresh(t)

SpecEmail == Init /\ [][NextEmail]_vars

(***************************************************************************)
(* The routes that write the users table's email, confirmed and            *)
(* refresh_token columns, with no cached reads between them.               *)
(***************************************************************************)
NextIdentity ==
    \/ Tick(REFRESH_DEFAULT)
    \/ \E e \in Registrants, s \in Salts : Signup(e, "secret", s)
    \/ \E t \in issued : ConfirmEmail(t)
    \/ \E e \in Emails : Login(e, "secret")
    \/ \E t \in issued, e \in Emails : UpdateEmail(t, e)
    \/ \E t \in issued : Refresh(t)

SpecIdentity == Init /\ [][NextIdentity]_vars

(***************************************************************************)
(* PATCH /users/password.  The dependency get_current_user resolves the    *)
(* bearer token, through the cache; old_password is verified against the   *)
(* password of the row so resolved, and the hash of new_password is then   *)
(* written into the row with the resolved id.  No cache key is written or  *)
(* deleted for the change, and refresh_token is not among the UPDATE's     *)
(* values.                                                                 *)
(***************************************************************************)
UpdatePassword(token, old_password, new_password, salt) ==
    LET current_user == get_current_user(token, cache, users, now)
        call == [Call("update_password", now) EXCEPT
                    !.tok = Some(token), !.password = Some(old_password),
                    !.new_password = Some(new_password),
                    !.sub = current_user.sub,
                    !.db_lookup = current_user.db_lookup]
        id == current_user.user[1].id
        verified == verify_password(old_password, current_user.user[1].password)
        password == get_password_hash(new_password, salt)
    IN  /\ cache' = current_user.cache
        /\ UNCHANGED <<now, ticks, issued, spent, zero_ttl, asked, owners, proc>>
        /\ IF current_user.user = None
           THEN /\ last' = Respond(call, current_user.status, current_user.detail)
                /\ UNCHANGED users
           ELSE IF verified.raised
           THEN /\ last' = Respond(call, 500, "Internal Server Error")
                /\ UNCHANGED users
           ELSE IF ~verified.value
           THEN /\ last' = Respond(call, 401, "Invalid old password")
                /\ UNCHANGED users
           ELSE /\ users' = update_password(id, password, users)
                /\ last' = [Respond(call, 200, "ok") EXCEPT !.user = Some(users'[id])]

NextPassword ==
    \/ \E d \in {CACHE_TTL} : Tick(d)
    \/ \E e \in Registrants, s \in Salts : Signup(e, "secret", s)
    \/ \E t \in issued : ConfirmEmail(t)
    \/ \E e \in Emails, p \in Passwords : Login(e, p)
    \/ \E t \in issued, old \in Passwords, new \in Passwords, s \in Salts :
          UpdatePassword(t, old, new, s)
    \/ \E t \in issued, p \in Passwords, s \in Salts : NewPassword(t, p, s)
    \/ \E t \in issued : GetMe(t)
    \/ \E t \in issued : Refresh(t)

SpecPassword == Init /\ [][NextPassword]_vars

(***************************************************************************)
(* The routes that take an email token, over the token's whole lifetime.   *)
(***************************************************************************)
NextMail ==
    \/ \E d \in {1, EMAIL_DEFAULT} : Tick(d)
    \/ \E e \in Registrants, s \in Salts : Signup(e, "secret", s)
    \/ \E t \in issued : ConfirmEmail(t)
    \/ \E t \in issued, p \in Passwords, s \in Salts : NewPassword(t, p, s)
    \/ \E e \in Emails, p \in Passwords : Login(e, p)

SpecMail == Init /\ [][NextMail]_vars

(***************************************************************************)
(* Passwords and stored hashes.  The users table is empty, or holds one    *)
(* confirmed row whose password column was not written by this server and  *)
(* is not a bcrypt hash.                                                   *)
(***************************************************************************)
HashPasswords == {"secret", Long1, Long2}
HashSalts == {"s1", "s2"}

ImportedRow ==
    [id |-> 1, email |-> "b@x.com",
     password |-> [scheme |-> "plaintext", salt |-> "", digest |-> <<"", "secret">>],
     confirmed |-> TRUE, refresh_token |-> None]

InitHash ==
    /\ users \in {<<>>, <<ImportedRow>>}
    /\ cache = [e \in Emails |-> None]
    /\ now = 0
    /\ ticks = 0
    /\ issued = {}
    /\ spent = {}
    /\ zero_ttl = {}
    /\ owners = {}
    /\ asked = {}
    /\ last = NoCall
    /\ proc = [p \in Procs |-> Idle]

NextHash ==
    \/ \E d \in {1} : Tick(d)
    \/ \E e \in Registrants, s \in HashSalts : Signup(e, "secret", s)
    \/ \E t \in issued : ConfirmEmail(t)
    \/ \E t \in issued, p \in HashPasswords, s \in HashSalts : NewPassword(t, p, s)
    \/ \E e \in Emails, p \in HashPasswords : Login(e, p)

SpecHash == InitHash /\ [][NextHash]_vars

(***************************************************************************)
(* The store or the cache failing under login, refresh and                 *)
(* get_current_user.                                                       *)
(***************************************************************************)
LoginFaults == {"none", "get_user_by_email", "db.commit"}
RefreshFaults == {"none", "get_user_by_email", "db.commit"}
GetMeFaults == {"none", "redis.get", "get_user_by_email", "redis.set", "redis.expire"}

NextDown ==
    \/ \E d \in {1} : Tick(d)
    \/ \E e \in Registrants, s \in Salts : Signup(e, "secret", s)
    \/ \E t \in issued : ConfirmEmail(t)
    \/ \E e \in Emails, f \in LoginFaults : LoginHandler(e, "secret", f)
    \/ \E t \in issued, f \in RefreshFaults : RefreshHandler(t, f)
    \/ \E t \in issued, f \in GetMeFaults : GetMeHandler(t, f)

SpecDown == Init /\ [][NextDown]_vars

(***************************************************************************)
(* get_current_user command by command: redis.get, the SELECT of           *)
(* get_user_by_email, redis.set and redis.expire are four round trips, and *)
(* the round trips of two workers interleave.  A request is abandoned when *)
(* its worker dies or its next command raises.  A worker serves one        *)
(* request.                                                                *)
(***************************************************************************)
\* decode the token and ask the cache
ResolveGet(p, token) ==
    LET checked == bearer_subject(token, now)
        email == checked.email[1]
        others == {q \in Procs \ {p} : proc[q].pc \in {"missed", "found", "set"}}
        \* began: the users table as the request found it
        started == [Idle EXCEPT !.tok = Some(token), !.began = Some(users),
                                !.overlapped = (others # {})]
        cached == redis_get(cache, email, now)
    IN  /\ proc[p].pc = "idle"
        /\ UNCHANGED <<users, cache, now, ticks, issued, spent, zero_ttl, asked, owners, last>>
        /\ IF checked.email = None
           THEN proc' = [proc EXCEPT ![p] =
                    [started EXCEPT !.pc = "done", !.status = checked.status,
                                    !.detail = checked.detail]]
           ELSE IF cached # None
           THEN proc' = [proc EXCEPT ![p] =
                    [started EXCEPT !.pc = "done", !.email = checked.email,
                                    !.user = Some(pickle_loads(cached[1])),
                                    !.status = 200, !.detail = "ok"]]
           ELSE proc' = [q \in Procs |->
                    IF q = p
                    THEN [started EXCEPT !.pc = "missed", !.email = checked.email]
                    ELSE IF q \in others
                         THEN [proc[q] EXCEPT !.overlapped = TRUE]
                         ELSE proc[q]]

\* the cache had no entry: ask the store
ResolveLookup(p) ==
    LET me == proc[p]
        user == get_user_by_email(me.email[1], users)
    IN  /\ me.pc = "missed"
        /\ UNCHANGED <<users, cache, now, ticks, issued, spent, zero_ttl, asked, owners, last>>
        /\ IF user = None
           THEN proc' = [proc EXCEPT ![p] =
                    [me EXCEPT !.pc = "done", !.status = 401, !.db_lookup = TRUE,
                               !.detail = "Could not validate credentials"]]
           ELSE proc' = [proc EXCEPT ![p] =
                    [me EXCEPT !.pc = "found", !.user = user, !.db_lookup = TRUE]]

\* self.redis.set(f"user:{email}", pickle.dumps(user))
ResolveSet(p) ==
    LET me == proc[p]
    IN  /\ me.pc = "found"
        /\ cache' = redis_set(cache, me.email[1], pickle_dumps(me.user[1]))
        /\ proc' = [proc EXCEPT ![p] = [me EXCEPT !.pc = "set"]]
        /\ UNCHANGED <<users, now, ticks, issued, spent, zero_ttl, asked, owners, last>>

\* self.redis.expire(f"user:{email}", 900), and the return
ResolveExpire(p) ==
    LET me == proc[p]
    IN  /\ me.pc = "set"
        /\ cache' = redis_expire(cache, me.email[1], CACHE_TTL, now)
        /\ proc' = [proc EXCEPT ![p] =
               [me EXCEPT !.pc = "done", !.status = 200, !.detail = "ok"]]
        /\ UNCHANGED <<users, now, ticks, issued, spent, zero_ttl, asked, owners, last>>

\* the request ends where it is
Abandon(p) ==
    /\ proc[p].pc \in {"missed", "found", "set"}
    /\ proc' = [proc EXCEPT ![p] = [proc[p] EXCEPT !.pc = "abandoned"]]
    /\ UNCHANGED <<users, cache, now, ticks, issued, spent, zero_ttl, asked, owners, last>>

NextSteps ==
    \/ \E d \in {1, CACHE_TTL} : Tick(d)
    \/ \E e \in Registrants, s \in Salts : Signup(e, "secret", s)
    \/ \E t \in issued : ConfirmEmail(t)
    \/ \E e \in Registrants : Login(e, "secret")
    \/ \E p \in Procs, t \in issued : ResolveGet(p, t)
    \/ \E p \in Procs : ResolveLookup(p)
    \/ \E p \in Procs : ResolveSet(p)
    \/ \E p \in Procs : ResolveExpire(p)
    \/ \E p \in Procs : Abandon(p)

SpecSteps == Init /\ [][NextSteps]_vars

(***************************************************************************)
(* Properties.  The failure kinds of the specification, read off the       *)
(* response the route gives.                                               *)
(***************************************************************************)
Kind(r) ==
    IF r.status \in {200, 201} THEN "ok"
    ELSE IF r.status = 500 THEN "ServerError"
    ELSE IF r.detail = "Invalid email" THEN "NotFound"
    ELSE IF r.detail = "Email not confirmed" THEN "NotConfirmed"
    ELSE IF r.detail = "Invalid password" THEN "BadCredentials"
    ELSE IF r.detail = "Invalid refresh token" THEN "Revoked"
    ELSE IF r.detail = "Invalid scope for token" THEN "WrongScope"
    ELSE "Rejected"

TokenOps == {"get_current_user", "refresh_token", "confirmed_email"}

\* the token is validly signed and unexpired at clock value t
Valid(token, t) == decode_jwt(token, t).error = "none"

StoredToken(email, db) == get_user_by_email(email, db)[1].refresh_token

\* C1: a token is accepted by get_current_user only with scope access, by
\* decode_refresh_token only with scope refresh, by get_email_from_token only
\* with scope email; no operation accepts a token of another purpose.
ScopeEnforced ==
    /\ (last.op = "get_current_user" /\ last.sub # None)
          => last.tok[1].claims.scope = ACCESS_SCOPE
    /\ (last.op = "refresh_token" /\ last.sub # None)
          => last.tok[1].claims.scope = REFRESH_SCOPE
    /\ (last.op = "confirmed_email" /\ last.sub # None)
          => last.tok[1].claims.scope = EMAIL_SCOPE
    /\ (last.op \in TokenOps /\ last.status = 200) => last.sub # None

\* A validly signed, unexpired refresh token was presented as a bearer token
\* and turned away.
WrongScopeRejected ==
    /\ last.op = "get_current_user"
    /\ last.tok # None
    /\ last.tok[1].claims.scope = REFRESH_SCOPE
    /\ Valid(last.tok[1], last.at)
    /\ last.sub = None
    /\ last.status = 401

\* C2: once refresh(rt1) has succeeded, every later refresh(rt1) is rejected,
\* at whatever clock value it comes.
SpentRefreshTokenRejected ==
    (last.op = "refresh_token" /\ last.reuse) => last.status # 200

\* C3: of two concurrent refresh calls presenting the same refresh token, at
\* most one succeeds.
AtMostOneRefreshSucceeds ==
    \A p, q \in Procs :
        ( /\ p # q
          /\ proc[p].pc = "done" /\ proc[q].pc = "done"
          /\ proc[p].overlapped /\ proc[q].overlapped
          /\ proc[p].tok = proc[q].tok )
        => ~(proc[p].status = 200 /\ proc[q].status = 200)

\* C4: a refresh with a validly signed, unexpired, refresh-scoped token that
\* is not the identity's stored refresh token is answered Revoked, leaves the
\* stored refresh token null and issues no token.
MismatchRevokes ==
    [][ ( /\ last'.op = "refresh_token"
          /\ last'.sub # None
          /\ get_user_by_email(last'.sub[1], users) # None
          /\ StoredToken(last'.sub[1], users) # last'.tok )
        => ( /\ Kind(last') = "Revoked"
             /\ StoredToken(last'.sub[1], users') = None
             /\ last'.access = None /\ last'.refresh = None
             /\ issued' = issued ) ]_vars

\* A valid refresh token other than the stored one was presented and revoked
\* the session.
MismatchSeen ==
    /\ last.op = "refresh_token"
    /\ Valid(last.tok[1], last.at)
    /\ last.tok[1].claims.scope = REFRESH_SCOPE
    /\ Kind(last) = "Revoked"
    /\ StoredToken(last.sub[1], users) = None

\* C5: when refresh succeeds, the refresh token returned is the one stored for
\* the identity as the call returns, and both returned tokens carry the
\* subject of the presented token.
RefreshPersistsReturned ==
    (last.op = "refresh_token" /\ last.status = 200)
    => /\ last.refresh # None /\ last.access # None
       /\ StoredToken(last.sub[1], users) = last.refresh
       /\ last.sub[1] = last.tok[1].claims.sub
       /\ last.access[1].claims.sub = last.tok[1].claims.sub
       /\ last.refresh[1].claims.sub = last.tok[1].claims.sub

\* A refresh succeeded and rotated the token to a new string.
RefreshRotated ==
    /\ last.op = "refresh_token"
    /\ last.status = 200
    /\ last.refresh # last.tok

\* C6: login reports the first failing check in the order existence,
\* confirmation, password: NotFound for an unknown email, NotConfirmed for an
\* unconfirmed identity whatever the password, BadCredentials only for a
\* confirmed identity with a wrong password.
LoginCheckOrder ==
    last.op = "login"
    => LET user == get_user_by_email(last.email[1], users)
       IN  /\ user = None => Kind(last) = "NotFound"
           /\ (user # None /\ ~user[1].confirmed) => Kind(last) = "NotConfirmed"
           /\ ( /\ user # None /\ user[1].confirmed
                /\ ~verify_password(last.password[1], user[1].password).raised
                /\ ~verify_password(last.password[1], user[1].password).value )
                 => Kind(last) = "BadCredentials"
           /\ Kind(last) = "BadCredentials"
                 => ( /\ user # None /\ user[1].confirmed
                      /\ ~verify_password(last.password[1], user[1].password).value )

\* An unconfirmed identity logged in with its correct password and was told
\* that its email is not confirmed.
UnconfirmedWithRightPassword ==
    /\ last.op = "login"
    /\ get_user_by_email(last.email[1], users) # None
    /\ ~get_user_by_email(last.email[1], users)[1].confirmed
    /\ verify_password(last.password[1],
                       get_user_by_email(last.email[1], users)[1].password).value
    /\ Kind(last) = "NotConfirmed"

\* C7: a successful login returns an access-scoped and a refresh-scoped token
\* whose subject is the email logged in with, and the identity's stored
\* refresh token is the returned one as the call returns.
LoginIssuesPair ==
    (last.op = "login" /\ last.status = 200)
    => /\ last.access # None /\ last.refresh # None
       /\ last.access[1].claims.scope = ACCESS_SCOPE
       /\ last.refresh[1].claims.scope = REFRESH_SCOPE
       /\ last.access[1].claims.sub = last.email[1]
       /\ last.refresh[1].claims.sub = last.email[1]
       /\ Valid(last.access[1], last.at) /\ Valid(last.refresh[1], last.at)
       /\ StoredToken(last.email[1], users) = last.refresh

\* A login succeeded.
LoginSucceeded ==
    /\ last.op = "login"
    /\ last.status = 200
    /\ last.refresh # None

\* C8: login hands out tokens only once the refresh token is stored; when the
\* store fails after the password check passed, the call fails with a server
\* error, which no credential failure gives, and returns no token.
PersistBeforeReturn ==
    last.op = "login"
    => LET user == get_user_by_email(last.email[1], users)
       IN  /\ (last.access # None \/ last.refresh # None)
                 => (user # None /\ user[1].refresh_token = last.refresh)
           /\ (last.fault /\ login_checks(user, last.password[1]) = "ok")
                 => ( /\ last.status = 500
                      /\ Kind(last) \notin {"ok", "NotFound", "NotConfirmed",
                                            "BadCredentials"}
                      /\ last.access = None /\ last.refresh = None )

\* The store failed under a login whose three checks had passed.
StoreFailedAfterChecks ==
    /\ last.op = "login"
    /\ last.fault
    /\ login_checks(get_user_by_email(last.email[1], users), last.password[1]) = "ok"
    /\ last.status = 500

\* C9: an access token created with expires_delta = 0 and presented to
\* get_current_user in the same clock second is rejected as expired.
ZeroTtlIsExpired ==
    ( /\ last.op = "get_current_user"
      /\ last.tok[1] \in zero_ttl
      /\ last.tok[1].claims.iat = last.at )
    => last.status # 200

\* C10: no grace window: a token presented at a clock value greater than its
\* exp is rejected by get_current_user, refresh and get_email_from_token.
NoGraceWindow ==
    (last.op \in TokenOps /\ last.at > last.tok[1].claims.exp)
    => (last.sub = None /\ last.status # 200)

\* A validly signed access token was presented one second after its exp and
\* rejected.
ExpiredByOneSecond ==
    /\ last.op = "get_current_user"
    /\ last.tok[1].sig = Sign(last.tok[1].claims, SECRET_KEY)
    /\ last.tok[1].claims.scope = ACCESS_SCOPE
    /\ last.at = last.tok[1].claims.exp + 1
    /\ last.sub = None

\* the outcome of the token check of operation op
TokenCheck(op, token, t) ==
    IF op = "get_current_user" THEN bearer_subject(token, t)
    ELSE IF op = "refresh_token" THEN decode_refresh_token(token, t)
    ELSE get_email_from_token(token, t)

Signed(token) == token.sig = Sign(token.claims, SECRET_KEY)

\* C11: the response to a correctly signed token presented after its exp
\* differs from the response the same operation gives to a forged token, in
\* get_current_user, refresh and get_email_from_token.
ExpiredDistinctFromForged ==
    ( /\ last.op \in TokenOps
      /\ Signed(last.tok[1])
      /\ last.at > last.tok[1].claims.exp )
    => \A f \in Forgeries :
          <<TokenCheck(last.op, f, last.at).status,
            TokenCheck(last.op, f, last.at).detail>> # <<last.status, last.detail>>

\* C12: a token whose signature does not verify is rejected by
\* get_current_user, refresh and get_email_from_token: no subject and no
\* identity come of it, no token is issued, and the user store and the cache
\* stay as they were.
ForgedTokenRejected ==
    [][ (last'.op \in TokenOps /\ ~Signed(last'.tok[1]))
        => ( /\ last'.status \notin {200, 201}
             /\ last'.sub = None /\ last'.user = None
             /\ last'.access = None /\ last'.refresh = None
             /\ users' = users /\ cache' = cache /\ issued' = issued ) ]_vars

\* A refresh token re-scoped to access under its old signature was presented
\* as a bearer token while unexpired, and turned away.
RescopedTokenRejected ==
    /\ last.op = "get_current_user"
    /\ ~Signed(last.tok[1])
    /\ last.tok[1].claims.scope = ACCESS_SCOPE
    /\ last.tok[1].sig.key = SECRET_KEY
    /\ last.tok[1].sig.over.scope = REFRESH_SCOPE
    /\ last.tok[1].claims.exp >= last.at
    /\ last.status = 401

\* the identity the cache holds for email at clock value t, if any
CachedUser(c, email, t) ==
    IF redis_get(c, email, t) = None THEN None
    ELSE Some(pickle_loads(redis_get(c, email, t)[1]))

\* C13: a get_current_user that misses the cache and finds the user leaves
\* the user cached under the token's subject, readable until 900 seconds
\* later; a get_current_user that finds the subject cached answers from the
\* cache without a store lookup.
CacheFillAndHit ==
    [][ (last'.op = "get_current_user" /\ last'.sub # None)
        => LET email == last'.sub[1]
               row == get_user_by_email(email, users)
           IN  /\ (CachedUser(cache, email, now) = None /\ row # None)
                     => ( /\ last'.db_lookup
                          /\ last'.status = 200
                          /\ last'.user = row
                          /\ CachedUser(cache', email, now) = row
                          /\ CachedUser(cache', email, now + CACHE_TTL - 1) = row )
               /\ CachedUser(cache, email, now) # None
                     => ( /\ ~last'.db_lookup
                          /\ last'.status = 200
                          /\ last'.user = CachedUser(cache, email, now)
                          /\ cache' = cache ) ]_vars

\* A get_current_user was answered from the cache, a clock tick or more
\* after the entry was written.
CacheHitSeen ==
    /\ last.op = "get_current_user"
    /\ last.status = 200
    /\ ~last.db_lookup
    /\ cache[last.sub[1]] # None
    /\ cache[last.sub[1]][1].expire_at # None
    /\ cache[last.sub[1]][1].expire_at[1] < last.at + CACHE_TTL

\* C15: as a login, a refresh or a confirmation returns, the cache entry of
\* the identity it was about is absent or equal to the identity's row in
\* the user store.
CacheAgreesWithStore ==
    LET email == IF last.op = "login" THEN last.email ELSE last.sub
    IN  (last.op \in {"login", "refresh_token", "confirmed_email"} /\ email # None)
        => \/ CachedUser(cache, email[1], now) = None
           \/ CachedUser(cache, email[1], now) = get_user_by_email(email[1], users)

\* get_current_user with no cache: the token check, then the user store
resolve_uncached(token, db, t) ==
    IF bearer_subject(token, t).email = None THEN None
    ELSE get_user_by_email(bearer_subject(token, t).email[1], db)

\* C16: every get_current_user returns what a resolver without a cache
\* returns: the identity's row in the user store, or a failure when the
\* token is rejected or the store has no such identity.
CacheTransparent ==
    last.op = "get_current_user"
    => /\ last.user = resolve_uncached(last.tok[1], users, last.at)
       /\ last.status = 200 <=> resolve_uncached(last.tok[1], users, last.at) # None

EveryEntryExpires ==
    \A e \in Emails :
        cache[e] # None
        => ( /\ cache[e][1].expire_at # None
             /\ cache[e][1].expire_at[1] <= now + CACHE_TTL )

\* With requests served one at a time, refresh accepts a token only when it
\* is the value of the identity's refresh_token column, and answers every
\* other valid refresh token of the identity with a failure and no token; a
\* login or refresh that hands out a refresh token leaves exactly that string
\* in the column.
SingleSlot ==
    [][ /\ ( /\ last'.op = "refresh_token"
             /\ last'.sub # None
             /\ get_user_by_email(last'.sub[1], users) # None )
           => ( /\ last'.status = 200 <=> StoredToken(last'.sub[1], users) = last'.tok
                /\ last'.status # 200 => (last'.access = None /\ last'.refresh = None) )
        /\ (last'.op = "refresh_token" /\ last'.status = 200)
           => StoredToken(last'.sub[1], users') = last'.refresh
        /\ (last'.op = "login" /\ last'.status = 200)
           => StoredToken(last'.email[1], users') = last'.refresh ]_vars

\* C17: a refresh that answers 200 does so for the string that is in the
\* identity's refresh_token column as it answers: in every state the one
\* string refresh accepts for an identity is the value the column holds, and
\* the strings handed out before it are refused.
AcceptedIsCurrentSlot ==
    [][ \A p \in Procs :
          (InFlight(p) /\ proc'[p].pc = "done" /\ proc'[p].status = 200)
          => StoredToken(proc[p].email[1], users) = proc[p].tok ]_vars

\* A refresh token handed out at an earlier clock value than the one in the
\* column was presented, valid, and refused.
EarlierTokenRefused ==
    /\ last.op = "refresh_token"
    /\ Valid(last.tok[1], last.at)
    /\ last.tok[1].claims.scope = REFRESH_SCOPE
    /\ last.tok[1].claims.iat < last.at
    /\ last.tok[1] \notin spent
    /\ last.status = 401

\* C19: confirmed_email on an unconfirmed identity answers 200 and changes
\* confirmed to true and nothing else; on a confirmed identity it answers
\* 200 and changes nothing.
ConfirmIdempotent ==
    [][ ( /\ last'.op = "confirmed_email"
          /\ last'.sub # None
          /\ get_user_by_email(last'.sub[1], users) # None )
        => LET user == get_user_by_email(last'.sub[1], users)[1]
           IN  /\ last'.status = 200
               /\ users' = [users EXCEPT ![user.id].confirmed = TRUE]
               /\ user.confirmed => users' = users
               /\ cache' = cache /\ issued' = issued ]_vars

\* The confirmation link was followed a second time.
ConfirmedTwice ==
    /\ last.op = "confirmed_email"
    /\ last.status = 200
    /\ last.detail = "Your email is already confirmed"
    /\ get_user_by_email(last.sub[1], users)[1].confirmed

\* C20: when the store or the cache raises under login, refresh or
\* get_current_user, the request fails with the server error, which is none
\* of NotFound, NotConfirmed, BadCredentials, Revoked, WrongScope and the
\* credentials failure, and returns no identity and no token.
CollaboratorFailureSurfaces ==
    (last.op \in {"login", "refresh_token", "get_current_user"} /\ last.down # "none")
    => ( /\ last.status = 500
         /\ Kind(last) = "ServerError"
         /\ last.user = None
         /\ last.access = None /\ last.refresh = None )

\* The store was down under a get_current_user for an identity that exists.
StoreDownSeen ==
    /\ last.op = "get_current_user"
    /\ last.down = "get_user_by_email"
    /\ get_user_by_email(last.sub[1], users) # None
    /\ last.status = 500


\* C27: get_current_user answers a validly signed, unexpired token of scope
\* refresh or email with the kind WrongScope, and with a response that differs
\* from the one it gives a forged token and from the one it gives an expired
\* token.
WrongScopeDistinct ==
    ( /\ last.op = "get_current_user"
      /\ Valid(last.tok[1], last.at)
      /\ last.tok[1].claims.scope # ACCESS_SCOPE )
    => /\ Kind(last) = "WrongScope"
       /\ \A f \in Forgeries :
             <<bearer_subject(f, last.at).status,
               bearer_subject(f, last.at).detail>> # <<last.status, last.detail>>
       /\ LET late == last.tok[1].claims.exp + 1
              old  == Rescope(last.tok[1], ACCESS_SCOPE).claims
              gone == [claims |-> old, sig |-> Sign(old, SECRET_KEY)]
          IN  <<bearer_subject(gone, late).status,
                bearer_subject(gone, late).detail>> # <<last.status, last.detail>>

\* C29: a refresh presenting a token that is forged, expired or not of scope
\* refresh is answered 401 with no token, and leaves the user store (every
\* refresh_token column), the cache and the set of tokens handed out as they
\* were; a refresh changes the store only on a valid token of scope refresh.
RejectedRefreshChangesNothing ==
    [][ ( /\ last'.op = "refresh_token"
          /\ ~( /\ Valid(last'.tok[1], now)
                /\ last'.tok[1].claims.scope = REFRESH_SCOPE ) )
        => ( /\ last'.status = 401
             /\ last'.access = None /\ last'.refresh = None
             /\ users' = users /\ cache' = cache /\ issued' = issued ) ]_vars

\* The refresh token in the identity's column was presented after its exp
\* and turned away, and is in the column still.
ExpiredStoredTokenKept ==
    /\ last.op = "refresh_token"
    /\ Signed(last.tok[1])
    /\ last.tok[1].claims.scope = REFRESH_SCOPE
    /\ last.at > last.tok[1].claims.exp
    /\ last.status = 401
    /\ get_user_by_email(last.tok[1].claims.sub, users) # None
    /\ StoredToken(last.tok[1].claims.sub, users) = last.tok

\* C28: from a refresh answered Revoked, which empties the identity's
\* refresh_token column, no refresh for the identity answers 200 and the
\* column stays empty, whichever token is presented, until a login that
\* answers 200 fills it.
RevokedUntilLogin ==
    [][ \A i \in DOMAIN users :
          ( /\ users[i].refresh_token = None
            /\ \E t \in issued : /\ t.claims.scope = REFRESH_SCOPE
                                 /\ t.claims.sub = users[i].email )
          => /\ \A p \in Procs :
                  ( /\ InFlight(p) /\ proc'[p].pc = "done"
                    /\ proc[p].email = Some(users[i].email) )
                  => proc'[p].status # 200
             /\ (proc' = proc /\ last'.op = "refresh_token"
                              /\ last'.sub = Some(users[i].email))
                  => last'.status # 200
             /\ users'[i].refresh_token # None
                  => ( /\ proc' = proc
                       /\ last'.op = "login" /\ last'.status = 200
                       /\ last'.email = Some(users[i].email) ) ]_vars

ScopeOf(op) ==
    IF op = "create_access_token" THEN ACCESS_SCOPE
    ELSE IF op = "create_refresh_token" THEN REFRESH_SCOPE
    ELSE EMAIL_SCOPE

\* C21: a call of create_access_token, create_refresh_token or
\* create_email_token leaves the user store and the cache as they were and
\* returns a token whose scope is access_token, refresh_token or email_token
\* respectively.
TokenCreationFrame ==
    [][ (asked' # asked /\ last'.op \in CreateOps)
        => ( /\ users' = users
             /\ cache' = cache
             /\ last'.tok # None
             /\ last'.tok[1].claims.scope = ScopeOf(last'.op)
             /\ decode_jwt(last'.tok[1], now).payload.scope = ScopeOf(last'.op) ) ]_vars

\* An email token was created on a server that has a user in the store and
\* in the cache.
EmailTokenCreatedWarm ==
    /\ last.op = "create_email_token"
    /\ last.tok[1].claims.scope = EMAIL_SCOPE
    /\ users # <<>>
    /\ redis_get(cache, WarmEmail, now) # None

\* the lifetime a create function gives a token asked with expires_delta
Lifetime(op, expires_delta) ==
    IF expires_delta # None THEN expires_delta[1]
    ELSE IF op = "create_access_token" THEN ACCESS_DEFAULT
    ELSE IF op = "create_refresh_token" THEN REFRESH_DEFAULT
    ELSE EMAIL_DEFAULT

\* C23: a token created for a subject with a scope and a lifetime above 0,
\* decoded under the same key before the lifetime has run out, decodes
\* without error to that subject and that scope.
TokenRoundTrip ==
    last.op = "decode_jwt"
    => \A r \in asked :
          ( /\ r.tok = last.tok[1]
            /\ Lifetime(r.op, r.delta) > 0
            /\ last.at < r.at + Lifetime(r.op, r.delta) )
          => ( /\ last.status = 200
               /\ last.sub = Some(r.sub)
               /\ last.scope = Some(ScopeOf(r.op)) )

\* A refresh token created for an address nobody has signed up with, with
\* the default lifetime, was decoded a second or more later.
DecodedBeforeExpiry ==
    /\ last.op = "decode_jwt"
    /\ \E r \in asked : /\ r.tok = last.tok[1]
                        /\ r.op = "create_refresh_token"
                        /\ r.sub = "b@x.com"
                        /\ r.delta = None
                        /\ last.at > r.at
    /\ last.status = 200

\* the cache a single get_current_user leaves when it misses and finds the
\* row at clock value t
single_fill(c, email, db, t) ==
    redis_expire(redis_set(c, email, pickle_dumps(get_user_by_email(email, db)[1])),
                 email, CACHE_TTL, t)

\* C22: when two get_current_user calls for one subject have both missed
\* the cache and asked the store, and the users table is as each found it
\* when it began, then as the second of them returns both have returned the
\* same identity, and the cache is what a single call leaves.
ConcurrentMissesHarmless ==
    [][ \A p, q \in Procs :
          ( /\ p # q
            /\ proc[p].pc = "set" /\ proc'[p].pc = "done"
            /\ proc[q].pc = "done" /\ proc[q].db_lookup /\ proc[q].status = 200
            /\ proc[q].email = proc[p].email
            /\ proc[p].began = Some(users) /\ proc[q].began = Some(users) )
          => ( /\ proc'[p].status = 200
               /\ proc'[p].user = proc[q].user
               /\ proc'[p].user = get_user_by_email(proc[p].email[1], users)
               /\ cache' = single_fill(cache, proc[p].email[1], users, now) ) ]_vars

\* Two get_current_user calls for one subject overlapped, both missed the
\* cache and asked the store, and both have returned.
BothMissedAndReturned ==
    /\ \A p \in Procs : /\ proc[p].pc = "done" /\ proc[p].status = 200
                        /\ proc[p].db_lookup /\ proc[p].overlapped
                        /\ proc[p].began = Some(users)
    /\ proc["w1"].email = proc["w2"].email
    /\ cache[proc["w1"].email[1]] # None

\* C24: a login for a confirmed identity whose stored password is not a
\* well-formed hash is answered with the BadCredentials failure: verify
\* returns false, no exception leaves the route.
MalformedHashIsBadCredentials ==
    LET row == get_user_by_email(last.email[1], users)
    IN  ( /\ last.op = "login"
          /\ last.down = "none"
          /\ row # None
          /\ row[1].confirmed
          /\ row[1].password.scheme # "bcrypt" )
        => ( /\ ~verify_password(last.password[1], row[1].password).raised
             /\ Kind(last) = "BadCredentials" )

\* C25: a login that follows the setting of a password q passes the
\* password check when it presents q, whatever the salt of the hash, and is
\* answered BadCredentials when it presents a plaintext other than q.
PasswordRoundTrip ==
    [][ ( /\ last.op = "new_password" /\ last.status = 200
          /\ last'.op = "login"
          /\ last'.email = last.sub )
        => ( /\ last'.password = last.password => last'.status = 200
             /\ last'.password # last.password
                   => Kind(last') = "BadCredentials" ) ]_vars

\* C26: an access token that get_current_user accepts resolves to an
\* identity with the id of the user the token was handed to at login or
\* refresh, whatever signups, logins and changes of email have been served
\* since, with the cache entry live or expired.
TokenResolvesToHolder ==
    (last.op = "get_current_user" /\ last.status = 200)
    => <<last.tok[1], last.user[1].id>> \in owners

\* C30: a refresh with a correctly signed, unexpired token of scope refresh
\* whose subject is the email of no row of the users table is answered with
\* one of the authentication failures, not a server error, and leaves the
\* users table as it was.
RefreshOfMissingIdentityRejected ==
    ( /\ last.op = "refresh_token"
      /\ last.down = "none"
      /\ last.sub # None
      /\ get_user_by_email(last.sub[1], users) = None )
    => ( /\ last.status = 401
         /\ Kind(last) # "ServerError"
         /\ last.access = None /\ last.refresh = None )

FailureKinds == {"NotFound", "NotConfirmed", "BadCredentials"}

\* C31: a login for an address with no row, for an unconfirmed identity or
\* with a password that does not verify is answered with NotFound,
\* NotConfirmed or BadCredentials and no token, and a login so answered
\* leaves the users table, every refresh_token column with it, and the cache
\* as they were.
FailedLoginChangesNothing ==
    [][ last'.op = "login"
        => LET user == get_user_by_email(last'.email[1], users)
               unfit == \/ user = None
                        \/ ~user[1].confirmed
                        \/ ( /\ ~verify_password(last'.password[1],
                                                 user[1].password).raised
                             /\ ~verify_password(last'.password[1],
                                                 user[1].password).value )
           IN  /\ (last'.down = "none" /\ unfit) => Kind(last') \in FailureKinds
               /\ Kind(last') \in FailureKinds
                     => ( /\ users' = users
                          /\ cache' = cache
                          /\ issued' = issued
                          /\ last'.access = None /\ last'.refresh = None ) ]_vars

\* A login with a wrong password was refused for an identity that has a
\* refresh token stored and a live cache entry.
FailedLoginWithSession ==
    /\ last.op = "login"
    /\ Kind(last) = "BadCredentials"
    /\ StoredToken(last.email[1], users) # None
    /\ redis_get(cache, last.email[1], now) # None

SessionScopes == {"access_token", "refresh_token"}

\* C32: in every state reached by a step, a row whose refresh_token column
\* is set is confirmed; no step turns confirmed from true to false; and
\* every access or refresh token a step hands out belongs to a row that is
\* confirmed when the step ends.
ConfirmedBeforeTokens ==
    [][ /\ \A id \in DOMAIN users :
              users[id].confirmed => users'[id].confirmed
        /\ \A id \in DOMAIN users' :
              users'[id].refresh_token # None => users'[id].confirmed
        /\ \A o \in owners' \ owners :
              o[1].claims.scope \in SessionScopes => users'[o[2]].confirmed ]_vars

\* A refresh handed out a new pair, and the new refresh token is stored in
\* a confirmed row.
RefreshedConfirmedSession ==
    /\ last.op = "refresh_token"
    /\ last.status = 200
    /\ \E id \in DOMAIN users : /\ users[id].refresh_token = last.refresh
                                /\ users[id].confirmed

\* C33: a change of password through PATCH /users/password succeeds only
\* when old_password verifies against the password hash the users table
\* holds for that row as the request is served.
OldPasswordChecked ==
    [][ (last'.op = "update_password" /\ last'.status = 200)
        => verify_password(last'.password[1],
                           users[last'.user[1].id].password).value ]_vars

PasswordOps == {"new_password", "update_password"}

\* the refresh route would hand out a new pair for token
RefreshAccepts(token, db, t) ==
    /\ decode_refresh_token(token, t).email # None
    /\ get_user_by_email(decode_refresh_token(token, t).email[1], db) # None
    /\ get_user_by_email(decode_refresh_token(token, t).email[1], db)[1].refresh_token
          = Some(token)

\* C34: a request to new_password or to PATCH /users/password leaves every
\* refresh_token column as it was, and every issued token that the refresh
\* route or get_current_user accepted before the request is accepted after
\* it.
PasswordChangeKeepsSessions ==
    [][ last'.op \in PasswordOps
        => /\ DOMAIN users' = DOMAIN users
           /\ \A id \in DOMAIN users :
                 users'[id].refresh_token = users[id].refresh_token
           /\ \A t \in issued :
                 /\ RefreshAccepts(t, users, now) => RefreshAccepts(t, users', now')
                 /\ get_current_user(t, cache, users, now).status = 200
                       => get_current_user(t, cache', users', now').status = 200 ]_vars

\* A password was changed while the row held a refresh token that the
\* refresh route accepts and an access token of the row was live.
PasswordChangedWithSession ==
    /\ last.op \in PasswordOps
    /\ last.status = 200
    /\ \E t \in issued : RefreshAccepts(t, users, now)
    /\ \E t \in issued : get_current_user(t, cache, users, now).status = 200

EmailTokenOps == {"confirmed_email", "new_password"}

\* C35: an email token is not used up.  Whenever a correctly signed email
\* token is presented to confirmed_email or to new_password no later than
\* its exp, and its subject has a row (a confirmed one, for new_password),
\* the request succeeds, whatever the token was used for before; no token is
\* withdrawn by the request, and after new_password the row's password is
\* the one the request carried.  In particular the request that follows a
\* successful use of the same token succeeds as well.
EmailTokenReusable ==
    [][ last'.op \in EmailTokenOps
        => LET token == last'.tok[1]
               user == get_user_by_email(token.claims.sub, users)
           IN  /\ ( /\ Signed(token)
                    /\ token.claims.scope = EMAIL_SCOPE
                    /\ now' <= token.claims.exp
                    /\ user # None
                    /\ last'.op = "new_password" => user[1].confirmed )
                  => /\ last'.status = 200
                     /\ issued' = issued
                     /\ last'.op = "new_password"
                           => verify_password(last'.password[1],
                                              users'[user[1].id].password).value
               /\ ( /\ last.op \in EmailTokenOps
                    /\ last.status = 200
                    /\ last.tok = last'.tok )
                  => last'.status = 200 ]_vars

\* The token mailed at signup, the only email token there is, confirmed the
\* address and, in the last second of its life, set a password.
EmailTokenUsedAgainAtExp ==
    /\ last.op = "new_password"
    /\ last.status = 200
    /\ last.at = last.tok[1].claims.exp
    /\ \A t \in issued : t.claims.scope = EMAIL_SCOPE => t = last.tok[1]
    /\ get_user_by_email(last.sub[1], users)[1].confirmed

\* worker p was answered from the cache in this step
AnsweredFromCache(p) ==
    /\ proc[p].pc = "idle"
    /\ proc'[p].pc = "done"
    /\ proc'[p].status = 200
    /\ ~proc'[p].db_lookup

\* C36: a get_current_user answered from the cache leaves the cache as it
\* was, and no entry outlives 900 seconds: whatever is in the cache at one
\* moment is gone 900 seconds later, so that from then on get_current_user
\* reads the users table.
EntryGoneAfterTtl ==
    [][ /\ (\E p \in Procs : AnsweredFromCache(p)) => cache' = cache
        /\ now' >= now + CACHE_TTL
              => \A e \in Emails : redis_get(cache', e, now') = None ]_vars

\* C37: a token created with no expires_delta has exp - iat equal to 900
\* seconds when it is an access token, 604800 when it is a refresh token and
\* 86400 when it is an email token; and no token handed out has its iat
\* after its exp.
DefaultLifetimes ==
    /\ \A r \in asked :
          r.delta = None
          => r.tok.claims.exp - r.tok.claims.iat = Lifetime(r.op, None)
    /\ \A t \in issued : t.claims.iat <= t.claims.exp

=============================================================================
